---------------------------- MODULE Spec2Model ----------------------------
(***************************************************************************)
(* Model of the three maintenance scripts of Optimised-WeaponPaints:       *)
(*   update_image_links.py    (rewrite "image" URLs in data/*.json)        *)
(*   validate_image_links.py  (probe every "image" URL, write a report)    *)
(*   index.py                 (convert *.png to *.webp in a process pool)  *)
(* Each script has its own specification (SpecRewrite, SpecValidate,       *)
(* SpecConvert); the variables of the scripts that are not running stay at *)
(* their idle values.                                                      *)
(***************************************************************************)
EXTENDS Integers, Sequences, FiniteSets, TLC

VARIABLES
    \* update_image_links.py
    rw_pc,        \* position of the caller: a direct convert_url call or main()
    url_arg,      \* argument of a direct convert_url call
    url_ret,      \* its return value
    url_ret2,     \* return value of convert_url applied to url_ret
    rw_dir,       \* the data directory: NoDir, or the *.json files sorted by name
    rw_orig,      \* the directory as the current run found it (history)
    rw_idx,       \* main's loop position in json_files
    rw_total,     \* main's total_changed
    rw_out,       \* lines printed by main
    rw_run,       \* how many times the script has been started
    rw_log,       \* one record per process_json_file call that returned (history)
    \* validate_image_links.py
    v_pc,         \* position of main()
    v_dir,        \* the data directory
    v_idx,        \* collect_image_urls' loop position
    v_workers,    \* the --workers argument
    v_out,        \* "Failed to read JSON" lines printed by collect_image_urls
    url_to_files, \* the index: sequence of [url, files] in insertion order
    futures,      \* one record per submitted check: state, result, probes
    consumed,     \* futures already yielded by as_completed, in yield order
    broken,       \* validate_urls' broken list
    report,       \* the report written by main, NoReport before
    \* index.py
    c_pc,         \* position of convert_png_to_webp
    c_src,        \* the scan root: whether it exists, and per png found what
                  \* converting it will meet
    c_dst,        \* per task: the destination file
    c_args,       \* --overwrite and --quality of the current run
    c_workers,    \* the pool's max_workers
    c_task,       \* per task: pending / running / done / raised / cancelled
    c_result,     \* per task: the (ok, msg) it returned, NoConversion before
    c_printed,    \* progress lines printed: [idx, total, task, ok, msg]
    c_run,        \* 1 in the first run of the script, 2 in the second
    c_hist        \* what the first run left, once the second has started (history)

rwVars == << rw_pc, url_arg, url_ret, url_ret2, rw_dir, rw_orig, rw_idx,
             rw_total, rw_out, rw_run, rw_log >>
vVars  == << v_pc, v_dir, v_idx, v_workers, v_out, url_to_files, futures, consumed,
             broken, report >>
cVars  == << c_pc, c_src, c_dst, c_args, c_workers, c_task, c_result,
             c_printed, c_run, c_hist >>
vars   == << rwVars, vVars, cVars >>

----------------------------------------------------------------------------
(* Bounds of the model *)

MaxTail == 5      \* length of the part of a URL that follows its prefix
MaxItems == 2     \* length of a JSON array
MaxFiles == 2     \* *.json files in the data directory
MaxRuns == 2      \* times the rewrite script is started on the same directory
MaxTasks == 2     \* png files found by rglob
MaxWorkers == 2   \* max_workers of a pool

SeqsUpTo(S, n) == UNION { [1..k -> S] : k \in 0..n }

RECURSIVE SumSeq(_)
SumSeq(s) == IF s = << >> THEN 0 ELSE Head(s) + SumSeq(Tail(s))

----------------------------------------------------------------------------
(* Python strings are sequences of characters; str methods used by the code *)

startswith(s, prefix) ==
    /\ Len(s) >= Len(prefix)
    /\ SubSeq(s, 1, Len(prefix)) = prefix

endswith(s, suffix) ==
    /\ Len(s) >= Len(suffix)
    /\ SubSeq(s, Len(s) - Len(suffix) + 1, Len(s)) = suffix

OLD_BASE == <<
    "h", "t", "t", "p", "s", ":", "/", "/", "r", "a", "w", ".", "g", "i", "t",
    "h", "u", "b", "u", "s", "e", "r", "c", "o", "n", "t", "e", "n", "t", ".",
    "c", "o", "m", "/", "N", "e", "r", "e", "z", "i", "e", "l", "/", "c", "s",
    "2", "-", "W", "e", "a", "p", "o", "n", "P", "a", "i", "n", "t", "s", "/",
    "m", "a", "i", "n", "/", "w", "e", "b", "s", "i", "t", "e", "/", "i", "m",
    "g", "/" >>

NEW_BASE == <<
    "h", "t", "t", "p", "s", ":", "/", "/", "r", "a", "w", ".", "g", "i", "t",
    "h", "u", "b", "u", "s", "e", "r", "c", "o", "n", "t", "e", "n", "t", ".",
    "c", "o", "m", "/", "a", "g", "a", "s", "k", "i", "n", "g", "1", "3", "3",
    "7", "/", "O", "p", "t", "i", "m", "i", "s", "e", "d", "-", "W", "e", "a",
    "p", "o", "n", "P", "a", "i", "n", "t", "s", "/", "m", "a", "s", "t", "e",
    "r", "/", "i", "m", "g", "/" >>

DOT_PNG == << ".", "p", "n", "g" >>
DOT_WEBP == << ".", "w", "e", "b", "p" >>
HTTP == << "h", "t", "t", "p" >>

----------------------------------------------------------------------------
(* JSON-decoded Python values: str, a non-string scalar, list, dict (keys in *)
(* insertion order, each key once)                                          *)

JStr(s) == [t |-> "str", s |-> s]
JNum == [t |-> "num", n |-> 0]
JArr(items) == [t |-> "arr", items |-> items]
JObj(keys, vals) == [t |-> "obj", keys |-> keys, vals |-> vals]

\* position of key k in a dict, 0 when absent ("image" in obj / obj["image"])
KeyPos(obj, k) ==
    IF \E i \in 1..Len(obj.keys) : obj.keys[i] = k
    THEN CHOOSE i \in 1..Len(obj.keys) : obj.keys[i] = k
    ELSE 0

----------------------------------------------------------------------------
(* update_image_links.py *)

\* a plausible slip: testing only the host part of OLD_BASE
convert_url_hostonly(url) ==
    IF url.t # "str" THEN url
    ELSE IF ~ startswith(url.s, SubSeq(OLD_BASE, 1, 34)) THEN url
    ELSE LET rel == SubSeq(url.s, Len(OLD_BASE) + 1, Len(url.s))
         IN JStr(NEW_BASE \o (IF endswith(rel, DOT_PNG)
                              THEN SubSeq(rel, 1, Len(rel) - Len(DOT_PNG)) \o DOT_WEBP
                              ELSE rel))

\* a plausible slip: testing the extension without its dot
convert_url_nodot(url) ==
    IF url.t # "str" THEN url
    ELSE IF ~ startswith(url.s, OLD_BASE) THEN url
    ELSE LET rel == SubSeq(url.s, Len(OLD_BASE) + 1, Len(url.s))
         IN JStr(NEW_BASE \o (IF endswith(rel, << "p", "n", "g" >>)
                              THEN SubSeq(rel, 1, Len(rel) - 3) \o << "w", "e", "b", "p" >>
                              ELSE rel))

convert_url(url) ==
    IF url.t # "str" THEN url
    ELSE IF ~ startswith(url.s, OLD_BASE) THEN url
    ELSE LET rel == SubSeq(url.s, Len(OLD_BASE) + 1, Len(url.s))
         IN JStr(NEW_BASE \o (IF endswith(rel, DOT_PNG)
                              THEN SubSeq(rel, 1, Len(rel) - Len(DOT_PNG)) \o DOT_WEBP
                              ELSE rel))

\* update_obj(obj): the value after the in-place update, and how many times
\* `changed += 1` ran while walking it
RECURSIVE update_obj(_)
update_obj(obj) ==
    IF obj.t = "obj" THEN
        LET i == KeyPos(obj, "image")
            hit == i # 0 /\ convert_url(obj.vals[i]) # obj.vals[i]
            vals1 == IF hit THEN [obj.vals EXCEPT ![i] = convert_url(obj.vals[i])]
                     ELSE obj.vals
            kids == [k \in 1..Len(vals1) |-> update_obj(vals1[k])]
        IN [ node |-> [obj EXCEPT !.vals = [k \in 1..Len(vals1) |-> kids[k].node]],
             changed |-> (IF hit THEN 1 ELSE 0)
                         + SumSeq([k \in 1..Len(vals1) |-> kids[k].changed]) ]
    ELSE IF obj.t = "arr" THEN
        LET kids == [k \in 1..Len(obj.items) |-> update_obj(obj.items[k])]
        IN [ node |-> [obj EXCEPT !.items = [k \in 1..Len(obj.items) |-> kids[k].node]],
             changed |-> SumSeq([k \in 1..Len(obj.items) |-> kids[k].changed]) ]
    ELSE [ node |-> obj, changed |-> 0 ]

\* a file whose text json.load rejects
Malformed == [t |-> "malformed"]
\* a data directory holding `files` (sorted by name), and a missing one
Dir(files) == [exists |-> TRUE, files |-> files]
NoDir == [exists |-> FALSE, files |-> << >>]

\* process_json_file(path) on a file holding `file`: json.load raises on a
\* malformed text (nothing in the function catches it); otherwise the count,
\* whether the file was written, the document in memory after update_obj and
\* the document the file holds afterwards
process_json_file(file) ==
    IF file = Malformed
    THEN [ raised |-> TRUE, changed |-> 0, wrote |-> FALSE, data |-> file, file |-> file ]
    ELSE LET u == update_obj(file)
         IN [ raised |-> FALSE, changed |-> u.changed, wrote |-> u.changed # 0,
              data |-> u.node,
              file |-> IF u.changed # 0 THEN u.node ELSE file ]

----------------------------------------------------------------------------
(* Inputs of update_image_links.py *)

TailChars == { "a", ".", "p", "n", "g" }
Tails == SeqsUpTo(TailChars, MaxTail)

\* the prefixes a URL is built from: none, the two bases, OLD_BASE without its
\* last "/", the host the two bases share, and OLD_BASE twice
Prefixes == { << >>, OLD_BASE, NEW_BASE, SubSeq(OLD_BASE, 1, Len(OLD_BASE) - 1),
              SubSeq(OLD_BASE, 1, 34), OLD_BASE \o OLD_BASE }

NoValue == [t |-> "none"]

\* arguments of a direct convert_url call: strings and non-strings
UrlArgs == { JStr(p \o r) : p \in Prefixes, r \in Tails }
           \cup { JNum, JArr(<< >>), JObj(<< "image" >>, << JStr(OLD_BASE) >>) }

U_OLD_PNG == OLD_BASE \o << "a", "/", "b", "/", "c", ".", "p", "n", "g" >>
U_OLD_JPG == OLD_BASE \o << "a", "/", "b", "/", "c", ".", "j", "p", "g" >>
U_NEW_WEBP == NEW_BASE \o << "a", "/", "b", "/", "c", ".", "w", "e", "b", "p" >>
U_OTHER == << "h", "t", "t", "p", ":", "/", "/", "x", "/", "d", ".", "p", "n", "g" >>

Leaves == { JStr(U_OLD_PNG), JStr(U_OLD_JPG), JStr(U_NEW_WEBP), JStr(U_OTHER), JNum }

\* objects without nesting
FlatObjs ==
    { JObj(<< >>, << >>) }
    \cup { JObj(<< "image" >>, << v >>) : v \in Leaves }
    \cup { JObj(<< "name" >>, << v >>) : v \in { JStr(U_OLD_PNG), JNum } }
    \cup { JObj(<< "image", "name" >>, << v, w >>) :
             v \in Leaves, w \in { JStr(U_OLD_PNG), JNum } }

\* what an array holds
Elems == { JObj(<< "image" >>, << v >>) : v \in Leaves }
         \cup { JStr(U_OLD_PNG), JObj(<< "name" >>, << JStr(U_OLD_PNG) >>) }

Arrays == { JArr(s) : s \in SeqsUpTo(Elems, MaxItems) }

\* objects holding an array, and an "image" key whose value may itself be a dict
NestedObjs ==
    { JObj(<< "items" >>, << a >>) : a \in Arrays }
    \cup { JObj(<< "image", "items" >>, << v, a >>) :
             v \in { JStr(U_OLD_PNG), JStr(U_NEW_WEBP),
                     JObj(<< "image" >>, << JStr(U_OLD_PNG) >>) },
             a \in Arrays }

Docs == Leaves \cup FlatObjs \cup Arrays \cup NestedObjs

\* the files that are combined into directories of several files
SmallFiles == { Malformed,
                JObj(<< "name" >>, << JStr(U_OLD_PNG) >>),
                JObj(<< "image" >>, << JStr(U_OLD_PNG) >>),
                JObj(<< "image" >>, << JStr(U_NEW_WEBP) >>),
                JArr(<< JObj(<< "image" >>, << JStr(U_OLD_PNG) >>),
                        JObj(<< "image" >>, << JStr(U_OLD_JPG) >>) >>) }

\* data directories: missing, one file holding any document, or up to MaxFiles
\* of the small files
DataDirs == { NoDir }
            \cup { Dir(<< d >>) : d \in Docs \cup { Malformed } }
            \cup { Dir(fs) : fs \in SeqsUpTo(SmallFiles, MaxFiles) }

----------------------------------------------------------------------------
(* update_image_links.py: direct calls of convert_url, and main() *)

RewriteIdle ==
    /\ rw_pc = "idle" /\ url_arg = NoValue /\ url_ret = NoValue /\ url_ret2 = NoValue
    /\ rw_dir = NoDir /\ rw_orig = NoDir /\ rw_idx = 0 /\ rw_total = 0
    /\ rw_out = << >> /\ rw_run = 0 /\ rw_log = << >>

RewriteInit ==
    /\ url_ret = NoValue /\ url_ret2 = NoValue
    /\ rw_idx = 0 /\ rw_total = 0 /\ rw_out = << >> /\ rw_log = << >>
    /\ \/ /\ rw_pc = "call" /\ url_arg \in UrlArgs
          /\ rw_dir = NoDir /\ rw_orig = NoDir /\ rw_run = 0
       \/ /\ rw_pc = "start" /\ url_arg = NoValue
          /\ rw_dir \in DataDirs /\ rw_orig = rw_dir /\ rw_run = 1

CallConvertUrl ==
    /\ rw_pc = "call"
    /\ url_ret' = convert_url(url_arg)
    /\ rw_pc' = "called"
    /\ UNCHANGED << url_arg, url_ret2, rw_dir, rw_orig, rw_idx, rw_total, rw_out,
                    rw_run, rw_log, vVars, cVars >>

CallConvertUrlAgain ==
    /\ rw_pc = "called"
    /\ url_ret2' = convert_url(url_ret)
    /\ rw_pc' = "called2"
    /\ UNCHANGED << url_arg, url_ret, rw_dir, rw_orig, rw_idx, rw_total, rw_out,
                    rw_run, rw_log, vVars, cVars >>

\* main(), lines 73-80: the directory test, the sorted glob, the "Found" line
RewriteMainStart ==
    /\ rw_pc = "start"
    /\ IF ~ rw_dir.exists
       THEN /\ rw_out' = << [k |-> "nodir"] >>
            /\ rw_pc' = "returned"
       ELSE /\ rw_out' = << [k |-> "found", n |-> Len(rw_dir.files)] >>
            /\ rw_pc' = "loop"
    /\ rw_idx' = 1
    /\ rw_total' = 0
    /\ UNCHANGED << url_arg, url_ret, url_ret2, rw_dir, rw_orig, rw_run, rw_log, vVars, cVars >>

\* main(), lines 81-84: one iteration of the loop over json_files
RewriteMainFile ==
    /\ rw_pc = "loop"
    /\ rw_idx <= Len(rw_dir.files)
    /\ LET r == process_json_file(rw_dir.files[rw_idx])
       IN IF r.raised
          THEN \* the exception leaves process_json_file, the loop and main
               /\ rw_pc' = "raised"
               /\ UNCHANGED << rw_dir, rw_idx, rw_total, rw_out, rw_log >>
          ELSE /\ rw_dir' = [rw_dir EXCEPT !.files[rw_idx] = r.file]
               /\ rw_total' = rw_total + r.changed
               /\ rw_out' = Append(rw_out, [k |-> "file", idx |-> rw_idx,
                                            changed |-> r.changed])
               /\ rw_log' = Append(rw_log, [run |-> rw_run, idx |-> rw_idx,
                                            changed |-> r.changed, wrote |-> r.wrote,
                                            loaded |-> rw_dir.files[rw_idx], data |-> r.data,
                                            after |-> r.file])
               /\ rw_idx' = rw_idx + 1
               /\ rw_pc' = "loop"
    /\ UNCHANGED << url_arg, url_ret, url_ret2, rw_orig, rw_run, vVars, cVars >>

\* main(), line 86: the total line
RewriteMainTotal ==
    /\ rw_pc = "loop"
    /\ rw_idx > Len(rw_dir.files)
    /\ rw_out' = Append(rw_out, [k |-> "total", n |-> rw_total])
    /\ rw_pc' = "done"
    /\ UNCHANGED << url_arg, url_ret, url_ret2, rw_dir, rw_orig, rw_idx, rw_total,
                    rw_run, rw_log, vVars, cVars >>

\* the script is started again on the directory the previous run left
RewriteRunAgain ==
    /\ rw_pc \in { "done", "raised", "returned" }
    /\ rw_run < MaxRuns
    /\ rw_run' = rw_run + 1
    /\ rw_pc' = "start"
    /\ rw_out' = << >>
    /\ rw_idx' = 0
    /\ rw_total' = 0
    /\ rw_orig' = rw_dir
    /\ UNCHANGED << url_arg, url_ret, url_ret2, rw_dir, rw_log, vVars, cVars >>

RewriteNext ==
    \/ CallConvertUrl
    \/ CallConvertUrlAgain
    \/ RewriteMainStart
    \/ RewriteMainFile
    \/ RewriteMainTotal
    \/ RewriteRunAgain

----------------------------------------------------------------------------
(* validate_image_links.py *)

\* url_to_files.setdefault(url, set()).add(filename) on the index, a dict kept
\* as the sequence of its items in insertion order
IndexAdd(index, url, filename) ==
    IF \E k \in 1..Len(index) : index[k].url = url
    THEN [k \in 1..Len(index) |->
            IF index[k].url = url
            THEN [index[k] EXCEPT !.files = @ \cup { filename }]
            ELSE index[k]]
    ELSE Append(index, [url |-> url, files |-> { filename }])

RECURSIVE collect_image_urls_from_obj(_, _, _), CollectEach(_, _, _)
collect_image_urls_from_obj(obj, filename, index) ==
    IF obj.t = "obj" THEN
        LET i == KeyPos(obj, "image")
            index1 == IF i # 0 /\ obj.vals[i].t = "str"
                         /\ startswith(obj.vals[i].s, HTTP)
                      THEN IndexAdd(index, obj.vals[i].s, filename)
                      ELSE index
        IN CollectEach(obj.vals, filename, index1)
    ELSE IF obj.t = "arr" THEN CollectEach(obj.items, filename, index)
    ELSE index

\* `for v in ...: collect_image_urls_from_obj(v, filename, url_to_files)`
CollectEach(children, filename, index) ==
    IF children = << >> THEN index
    ELSE CollectEach(Tail(children), filename,
                     collect_image_urls_from_obj(Head(children), filename, index))

\* sorted(set) of file names; the files of a directory are named by their rank
RECURSIVE sorted(_)
sorted(S) ==
    IF S = { } THEN << >>
    ELSE LET m == CHOOSE x \in S : \A y \in S : x <= y
         IN << m >> \o sorted(S \ { m })

\* what the network does with one HEAD request: a response with a status (the
\* last one, when redirects were followed), or none (connection refused, DNS
\* failure, timeout)
Probes == { [received |-> TRUE, status |-> 200, why |-> "response"],
            [received |-> TRUE, status |-> 304, why |-> "response"],
            [received |-> TRUE, status |-> 404, why |-> "response"],
            [received |-> FALSE, status |-> 0, why |-> "refused"],
            [received |-> FALSE, status |-> 0, why |-> "timeout"] }

\* Request(url) raises ValueError("unknown url type") for a URL without "scheme:"
HasScheme(url) ==
    \E i \in 2..Len(url) : url[i] = ":" /\ \A j \in 1..(i - 1) : url[j] \notin { "/", ":" }

\* urlopen(req, timeout): returns the response when its status is 2xx, raises
\* HTTPError(code) for any other status, URLError when no connection was made,
\* and lets a timeout through as TimeoutError
urlopen(probe) ==
    IF probe.received
    THEN IF 200 <= probe.status /\ probe.status < 300
         THEN [k |-> "resp", code |-> probe.status, text |-> ""]
         ELSE [k |-> "HTTPError", code |-> probe.status, text |-> "HTTP Error"]
    ELSE IF probe.why = "refused"
         THEN [k |-> "URLError", code |-> 0, text |-> "<urlopen error refused>"]
         ELSE [k |-> "Exception", code |-> 0, text |-> "timed out"]

\* check_url(url, timeout) with the network answering `probe`: the tuple
\* (url, ok, status, error) it returns, or the exception that leaves it
check_url(url, probe) ==
    IF ~ HasScheme(url)
    THEN [raised |-> TRUE, url |-> url, ok |-> FALSE, status |-> 0,
          error |-> "unknown url type"]
    ELSE LET r == urlopen(probe)
         IN IF r.k = "resp"
            THEN [raised |-> FALSE, url |-> url,
                  ok |-> (200 <= r.code /\ r.code < 400), status |-> r.code, error |-> ""]
            ELSE IF r.k = "HTTPError"
            THEN [raised |-> FALSE, url |-> url, ok |-> FALSE, status |-> r.code,
                  error |-> r.text]
            ELSE [raised |-> FALSE, url |-> url, ok |-> FALSE, status |-> 0,
                  error |-> r.text]

\* url_to_files.get(url, [])
IndexGet(index, url) ==
    IF \E k \in 1..Len(index) : index[k].url = url
    THEN (CHOOSE e \in { index[k] : k \in 1..Len(index) } : e.url = url).files
    ELSE { }

\* a plausible slip: a future whose task raised is dropped (`continue`)
handle_result_dropraised(brk, index, url, res) ==
    IF res.raised \/ res.ok THEN brk
    ELSE Append(brk, [url |-> res.url, status |-> res.status, error |-> res.error,
                      files |-> sorted(IndexGet(index, res.url))])

\* a plausible slip: the files of the entry of a raised task are looked up under
\* the exception text instead of the URL
handle_result_badfiles(brk, index, url, res) ==
    LET u == IF res.raised THEN << "?" >> ELSE res.url
        ok == ~ res.raised /\ res.ok
    IN IF ok THEN brk
       ELSE Append(brk, [url |-> u, status |-> IF res.raised THEN 0 ELSE res.status,
                         error |-> res.error,
                         files |-> sorted(IndexGet(index, u))])

\* validate_urls, lines 69-83: the body of the as_completed loop for the future
\* of `url` whose task ended with `res`; the broken list afterwards
handle_result(brk, index, url, res) ==
    LET u == IF res.raised THEN url ELSE res.url
        ok == IF res.raised THEN FALSE ELSE res.ok
        status == IF res.raised THEN 0 ELSE res.status
        error == res.error
    IN IF ~ ok
       THEN Append(brk, [url |-> u, status |-> status, error |-> error,
                         files |-> sorted(IndexGet(index, u))])
       ELSE brk

\* no report file has been written
NoReport == [t |-> "noreport"]

NoResult == [raised |-> FALSE, url |-> << >>, ok |-> FALSE, status |-> -1,
             error |-> "none"]
NoProbe == [received |-> FALSE, status |-> -1, why |-> "none"]

\* short URLs: only their first characters matter to the collection
V_A == << "h", "t", "t", "p", ":", "/", "/", "a" >>
V_B == << "h", "t", "t", "p", "s", ":", "/", "/", "b" >>
V_NOSCHEME == << "h", "t", "t", "p", "x" >>
V_REL == << "i", "m", "g", "/", "a" >>

ValFiles == { Malformed,
              JObj(<< "image" >>, << JStr(V_A) >>),
              JArr(<< JObj(<< "image" >>, << JStr(V_B) >>),
                      JObj(<< "image", "name" >>, << JStr(V_A), JStr(V_B) >>) >>),
              JObj(<< "image", "skin" >>,
                   << JStr(V_NOSCHEME), JObj(<< "image" >>, << JStr(V_A) >>) >>),
              JObj(<< "image", "items" >>,
                   << JNum, JArr(<< JObj(<< "image" >>, << JStr(V_B) >>),
                                    JObj(<< "image" >>, << JStr(V_REL) >>) >>) >>) }

ValDirs == { NoDir } \cup { Dir(fs) : fs \in SeqsUpTo(ValFiles, MaxFiles) }

ValidateInit ==
    /\ v_pc = "start" /\ v_dir \in ValDirs /\ v_workers \in 1..MaxWorkers
    /\ v_idx = 0 /\ v_out = << >> /\ url_to_files = << >> /\ futures = << >>
    /\ consumed = << >> /\ broken = << >> /\ report = NoReport

\* main(), lines 122-124, and the start of collect_image_urls
ValidateMainStart ==
    /\ v_pc = "start"
    /\ IF ~ v_dir.exists
       THEN v_pc' = "returned" /\ v_out' = << [k |-> "nodir"] >>
       ELSE v_pc' = "collect" /\ v_out' = << [k |-> "found", n |-> Len(v_dir.files)] >>
    /\ v_idx' = 1
    /\ UNCHANGED << v_dir, v_workers, url_to_files, futures, consumed, broken, report,
                    rwVars, cVars >>

\* collect_image_urls, lines 28-36: one iteration of the loop over json_files
CollectFile ==
    /\ v_pc = "collect"
    /\ v_idx <= Len(v_dir.files)
    /\ IF v_dir.files[v_idx] = Malformed
       THEN /\ v_out' = Append(v_out, [k |-> "failed", idx |-> v_idx])
            /\ UNCHANGED url_to_files
       ELSE /\ url_to_files' =
                  collect_image_urls_from_obj(v_dir.files[v_idx], v_idx, url_to_files)
            /\ UNCHANGED v_out
    /\ v_idx' = v_idx + 1
    /\ UNCHANGED << v_pc, v_dir, v_workers, futures, consumed, broken, report,
                    rwVars, cVars >>

\* collect_image_urls returns; validate_urls, lines 60-67: one check is
\* submitted per key of the index
SubmitChecks ==
    /\ v_pc = "collect"
    /\ v_idx > Len(v_dir.files)
    /\ futures' = [i \in 1..Len(url_to_files) |->
                      [url |-> url_to_files[i].url, state |-> "pending",
                       result |-> NoResult, probe |-> NoProbe, runs |-> 0]]
    /\ v_out' = Append(v_out, [k |-> "collected", n |-> Len(url_to_files)])
    /\ v_pc' = "validate"
    /\ UNCHANGED << v_dir, v_idx, v_workers, url_to_files, consumed, broken, report,
                    rwVars, cVars >>

\* a free pool thread takes the oldest queued check
StartCheck(i) ==
    /\ v_pc = "validate"
    /\ futures[i].state = "pending"
    /\ \A j \in 1..(i - 1) : futures[j].state # "pending"
    /\ Cardinality({ j \in 1..Len(futures) : futures[j].state = "running" }) < v_workers
    /\ futures' = [futures EXCEPT ![i].state = "running"]
    /\ UNCHANGED << v_pc, v_dir, v_idx, v_workers, v_out, url_to_files, consumed,
                    broken, report, rwVars, cVars >>

\* check_url runs to its end in a pool thread
FinishCheck(i) ==
    /\ v_pc = "validate"
    /\ futures[i].state = "running"
    /\ \E probe \in Probes :
          futures' = [futures EXCEPT ![i] =
                         [@ EXCEPT !.state = "done",
                                   !.result = check_url(futures[i].url, probe),
                                   !.probe = IF HasScheme(futures[i].url)
                                             THEN probe ELSE NoProbe,
                                   !.runs = @ + 1]]
    /\ UNCHANGED << v_pc, v_dir, v_idx, v_workers, v_out, url_to_files, consumed,
                    broken, report, rwVars, cVars >>

\* as_completed yields a finished future; the loop body handles it
ConsumeCheck(i) ==
    /\ v_pc = "validate"
    /\ futures[i].state = "done"
    /\ \A k \in 1..Len(consumed) : consumed[k] # i
    /\ broken' = handle_result(broken, url_to_files, futures[i].url, futures[i].result)
    /\ consumed' = Append(consumed, i)
    /\ UNCHANGED << v_pc, v_dir, v_idx, v_workers, v_out, url_to_files, futures,
                    report, rwVars, cVars >>

\* as_completed is exhausted, the pool is shut down, validate_urls returns and
\* main writes the report (lines 128-141)
WriteReport ==
    /\ v_pc = "validate"
    /\ Len(consumed) = Len(futures)
    /\ report' = [total_urls |-> Len(url_to_files), broken_count |-> Len(broken),
                  broken |-> broken]
    /\ v_pc' = "done"
    /\ UNCHANGED << v_dir, v_idx, v_workers, v_out, url_to_files, futures, consumed,
                    broken, rwVars, cVars >>

ValidateNext ==
    \/ ValidateMainStart
    \/ CollectFile
    \/ SubmitChecks
    \/ \E i \in 1..Len(futures) : StartCheck(i)
    \/ \E i \in 1..Len(futures) : FinishCheck(i)
    \/ \E i \in 1..Len(futures) : ConsumeCheck(i)
    \/ WriteReport

----------------------------------------------------------------------------
(* index.py *)

\* what converting one png meets:
\*   good     every step can succeed
\*   corrupt  Image.open cannot decode the source
\*   nodir    the destination's parent directory cannot be created
\*   badname  stat() and open() of the destination fail with an OSError that
\*            pathlib does not ignore (its name is too long, its parent cannot
\*            be searched)
SrcKinds == { "good", "corrupt", "nodir", "badname" }

\* how img.save ends: it writes the file, it fails leaving a partial file, or
\* it fails and the file it created is removed
SaveEnds == { "written", "partial", "removed" }

\* values of --quality: the default of the command line and that of the function
Qualities == { 100, 80 }

\* a destination that does not exist, and one that was there before the first
\* run; a file written by the script records the run and the quality
Absent == [state |-> "absent", by |-> 0, quality |-> 0]
Present == [state |-> "full", by |-> 0, quality |-> 0]
NoConversion == [ok |-> FALSE, msg |-> "none"]
NoArgs == [overwrite |-> FALSE, quality |-> 0]
NoHistory == [dst |-> << >>, result |-> << >>, task |-> << >>, overwrite |-> FALSE]

\* a plausible slip: the existence test is dropped
_convert_one_noskip(kind, dst, quality, overwrite, run, save) ==
    IF kind = "nodir" \/ kind = "corrupt" \/ kind = "badname"
    THEN [raised |-> FALSE, ok |-> FALSE, msg |-> "Failed to convert", dst |-> dst]
    ELSE IF save = "written"
    THEN [raised |-> FALSE, ok |-> TRUE, msg |-> "Converted",
          dst |-> [state |-> "full", by |-> run, quality |-> quality]]
    ELSE [raised |-> FALSE, ok |-> FALSE, msg |-> "Failed to convert",
          dst |-> IF save = "removed" /\ dst.state = "absent" THEN Absent
                  ELSE [state |-> "partial", by |-> run, quality |-> quality]]

\* _convert_one((png, webp, quality, overwrite)) in run `run`, the source being
\* of kind `kind`, the destination being `dst` and img.save ending as `save` if
\* it is reached: the exception that leaves it or the (ok, msg) it returns, and
\* the destination afterwards
_convert_one(kind, dst, quality, overwrite, run, save) ==
    IF ~ overwrite /\ kind = "badname"
    THEN \* webp_path.exists() raises, outside the try
         [raised |-> TRUE, ok |-> FALSE, msg |-> "OSError", dst |-> dst]
    ELSE IF ~ overwrite /\ dst.state # "absent"
    THEN [raised |-> FALSE, ok |-> TRUE, msg |-> "Skipping existing", dst |-> dst]
    ELSE IF kind = "nodir"
    THEN \* mkdir raises
         [raised |-> FALSE, ok |-> FALSE, msg |-> "Failed to convert", dst |-> dst]
    ELSE IF kind = "corrupt"
    THEN \* Image.open raises
         [raised |-> FALSE, ok |-> FALSE, msg |-> "Failed to convert", dst |-> dst]
    ELSE IF kind = "badname"
    THEN \* img.save cannot open the destination
         [raised |-> FALSE, ok |-> FALSE, msg |-> "Failed to convert", dst |-> dst]
    ELSE IF save = "written"
    THEN [raised |-> FALSE, ok |-> TRUE, msg |-> "Converted",
          dst |-> [state |-> "full", by |-> run, quality |-> quality]]
    ELSE [raised |-> FALSE, ok |-> FALSE, msg |-> "Failed to convert",
          dst |-> IF save = "removed" /\ dst.state = "absent" THEN Absent
                  ELSE [state |-> "partial", by |-> run, quality |-> quality]]

ScanRoots == { NoDir } \cup { Dir(ks) : ks \in SeqsUpTo(SrcKinds, MaxTasks) }

ConvertInit ==
    /\ c_pc = "start" /\ c_src \in ScanRoots
    /\ c_dst \in [1..Len(c_src.files) -> { Absent, Present }]
    /\ \A i \in 1..Len(c_src.files) :
          c_src.files[i] \in { "nodir", "badname" } => c_dst[i] = Absent
    /\ c_args \in [overwrite : BOOLEAN, quality : Qualities]
    /\ c_workers \in 1..MaxWorkers
    /\ c_task = << >> /\ c_result = << >> /\ c_printed = << >>
    /\ c_run = 1 /\ c_hist = NoHistory

\* main(), lines 97-99, and convert_png_to_webp, lines 27-48: the root test,
\* rglob, the early return, the task list, the pool
ConvertStart ==
    /\ c_pc = "start"
    /\ IF ~ c_src.exists \/ c_src.files = << >>
       THEN c_pc' = "returned"
       ELSE c_pc' = "pool"
    /\ c_task' = [i \in 1..Len(c_src.files) |-> "pending"]
    /\ c_result' = [i \in 1..Len(c_src.files) |-> NoConversion]
    /\ c_printed' = << >>
    /\ UNCHANGED << c_src, c_dst, c_args, c_workers, c_run, c_hist, rwVars, vVars >>

\* a free worker process takes the oldest queued task
StartTask(i) ==
    /\ c_pc = "pool"
    /\ c_task[i] = "pending"
    /\ \A j \in 1..(i - 1) : c_task[j] # "pending"
    /\ Cardinality({ j \in 1..Len(c_task) : c_task[j] = "running" }) < c_workers
    /\ c_task' = [c_task EXCEPT ![i] = "running"]
    /\ UNCHANGED << c_pc, c_src, c_dst, c_args, c_workers, c_result, c_printed,
                    c_run, c_hist, rwVars, vVars >>

\* _convert_one runs to its end in a worker process; a task already running
\* when the pool is being shut down is waited for
FinishTask(i) ==
    /\ c_pc \in { "pool", "unwinding" }
    /\ c_task[i] = "running"
    /\ \E save \in SaveEnds :
          LET r == _convert_one(c_src.files[i], c_dst[i], c_args.quality,
                                c_args.overwrite, c_run, save)
          IN /\ c_task' = [c_task EXCEPT ![i] = IF r.raised THEN "raised" ELSE "done"]
             /\ c_result' = [c_result EXCEPT ![i] = [ok |-> r.ok, msg |-> r.msg]]
             /\ c_dst' = [c_dst EXCEPT ![i] = r.dst]
    /\ UNCHANGED << c_pc, c_src, c_args, c_workers, c_printed, c_run, c_hist,
                    rwVars, vVars >>

\* convert_png_to_webp, lines 49-50: executor.map hands over the next result in
\* submission order; the result of a task that raised is re-raised in the loop,
\* the tasks not yet started are cancelled and the pool is shut down
ConsumeResult ==
    /\ c_pc = "pool"
    /\ Len(c_printed) < Len(c_task)
    /\ LET n == Len(c_printed) + 1
       IN /\ c_task[n] \in { "done", "raised" }
          /\ IF c_task[n] = "done"
             THEN /\ c_printed' = Append(c_printed,
                        [idx |-> n, total |-> Len(c_task), task |-> n,
                         ok |-> c_result[n].ok, msg |-> c_result[n].msg])
                  /\ UNCHANGED << c_pc, c_task >>
             ELSE /\ c_pc' = "unwinding"
                  /\ c_task' = [i \in 1..Len(c_task) |->
                                   IF c_task[i] = "pending" THEN "cancelled"
                                   ELSE c_task[i]]
                  /\ UNCHANGED c_printed
    /\ UNCHANGED << c_src, c_dst, c_args, c_workers, c_result, c_run, c_hist,
                    rwVars, vVars >>

\* the `with` block is left: normally after the last result, or by the
\* exception once the running tasks have ended
ConvertReturn ==
    /\ \/ /\ c_pc = "pool" /\ Len(c_printed) = Len(c_task)
          /\ c_pc' = "done"
       \/ /\ c_pc = "unwinding"
          /\ \A i \in 1..Len(c_task) : c_task[i] # "running"
          /\ c_pc' = "raised"
    /\ UNCHANGED << c_src, c_dst, c_args, c_workers, c_task, c_result, c_printed,
                    c_run, c_hist, rwVars, vVars >>

\* the script is started a second time on the same source files
ConvertRunAgain ==
    /\ c_pc \in { "done", "raised", "returned" }
    /\ c_run = 1
    /\ c_run' = 2
    /\ c_hist' = [dst |-> c_dst, result |-> c_result, task |-> c_task,
                  overwrite |-> c_args.overwrite]
    /\ c_args' \in [overwrite : BOOLEAN, quality : Qualities]
    /\ c_pc' = "start"
    /\ c_task' = << >>
    /\ c_result' = << >>
    /\ c_printed' = << >>
    /\ UNCHANGED << c_src, c_dst, c_workers, rwVars, vVars >>

ConvertNext ==
    \/ ConvertStart
    \/ \E i \in 1..Len(c_task) : StartTask(i)
    \/ \E i \in 1..Len(c_task) : FinishTask(i)
    \/ ConsumeResult
    \/ ConvertReturn
    \/ ConvertRunAgain

----------------------------------------------------------------------------
(* Idle values of the scripts that are not running *)

ValidateIdle ==
    /\ v_pc = "idle" /\ v_dir = NoDir /\ v_idx = 0 /\ v_workers = 0 /\ v_out = << >>
    /\ url_to_files = << >> /\ futures = << >> /\ consumed = << >>
    /\ broken = << >> /\ report = NoReport

ConvertIdle ==
    /\ c_pc = "idle" /\ c_src = NoDir /\ c_dst = << >> /\ c_args = NoArgs
    /\ c_workers = 0 /\ c_task = << >> /\ c_result = << >> /\ c_printed = << >>
    /\ c_run = 0 /\ c_hist = NoHistory

----------------------------------------------------------------------------
(* Specifications *)

InitRewrite == RewriteInit /\ ValidateIdle /\ ConvertIdle

SpecRewrite == InitRewrite /\ [][RewriteNext]_vars

InitValidate == ValidateInit /\ RewriteIdle /\ ConvertIdle

SpecValidate == InitValidate /\ [][ValidateNext]_vars

InitConvert == ConvertInit /\ RewriteIdle /\ ValidateIdle

SpecConvert == InitConvert /\ [][ConvertNext]_vars

----------------------------------------------------------------------------
(* Claims about update_image_links.py *)

\* s begins with OLD_BASE, character by character
UnderOldBase(s) ==
    /\ Len(s) >= Len(OLD_BASE)
    /\ \A i \in 1..Len(OLD_BASE) : s[i] = OLD_BASE[i]

\* r is what the rewrite rule of the specification gives for u
RewriteRule(u, r) ==
    IF u.t # "str" \/ ~ UnderOldBase(u.s) THEN r = u
    ELSE LET n == Len(u.s) - Len(OLD_BASE)
             o == Len(OLD_BASE)
             w == Len(NEW_BASE)
             png == n >= 4 /\ \A j \in 1..4 : u.s[o + n - 4 + j] = DOT_PNG[j]
         IN /\ r.t = "str"
            /\ Len(r.s) >= w
            /\ \A i \in 1..w : r.s[i] = NEW_BASE[i]
            /\ IF png
               THEN /\ Len(r.s) = w + n + 1
                    /\ \A i \in 1..(n - 4) : r.s[w + i] = u.s[o + i]
                    /\ \A j \in 1..5 : r.s[w + n - 4 + j] = DOT_WEBP[j]
               ELSE /\ Len(r.s) = w + n
                    /\ \A i \in 1..n : r.s[w + i] = u.s[o + i]

\* C5: every value convert_url returns is the one the rewrite rule gives for its
\* argument: a non-string or a string not under OLD_BASE comes back unchanged, and
\* OLD_BASE + rel comes back as NEW_BASE + rel with a final ".png" made ".webp"
C5_ConvertUrlFollowsRule ==
    /\ rw_pc \in { "called", "called2" } => RewriteRule(url_arg, url_ret)
    /\ rw_pc = "called2" => RewriteRule(url_ret, url_ret2)

C5_Witness ==
    /\ rw_pc = "called"
    /\ url_arg = JStr(OLD_BASE \o << "a", ".", "p", "n", "g" >>)
    /\ url_ret = JStr(NEW_BASE \o << "a", ".", "w", "e", "b", "p" >>)

\* C4: the rewrite is idempotent: convert_url of a converted value is that value,
\* and a process_json_file call of a later run, on a document an earlier run has
\* already been over, counts nothing, changes nothing and does not write the file
C4_RewriteIdempotent ==
    /\ rw_pc = "called2" => url_ret2 = url_ret
    /\ \A i \in 1..Len(rw_log) :
          rw_log[i].run >= 2 =>
             /\ rw_log[i].changed = 0
             /\ ~ rw_log[i].wrote
             /\ rw_log[i].data = rw_log[i].loaded
             /\ rw_log[i].after = rw_log[i].loaded

C4_Witness ==
    \E i, j \in 1..Len(rw_log) :
       /\ rw_log[i].run = 1 /\ rw_log[i].changed >= 2 /\ rw_log[i].wrote
       /\ rw_log[j].run = 2 /\ rw_log[j].idx = rw_log[i].idx
       /\ rw_log[j].loaded = rw_log[i].data

\* the nodes of a document, each named by the child positions leading to it
RECURSIVE Paths(_)
Paths(n) ==
    { << >> } \cup
    (IF n.t = "obj"
     THEN UNION { { << i >> \o q : q \in Paths(n.vals[i]) } : i \in 1..Len(n.vals) }
     ELSE IF n.t = "arr"
     THEN UNION { { << i >> \o q : q \in Paths(n.items[i]) } : i \in 1..Len(n.items) }
     ELSE { })

RECURSIVE NodeAt(_, _)
NodeAt(n, q) ==
    IF q = << >> THEN n
    ELSE IF n.t = "obj" THEN NodeAt(n.vals[Head(q)], Tail(q))
    ELSE NodeAt(n.items[Head(q)], Tail(q))

\* an object whose "image" value is a string under OLD_BASE
IsTarget(x) ==
    /\ x.t = "obj"
    /\ \E i \in 1..Len(x.keys) :
          x.keys[i] = "image" /\ x.vals[i].t = "str" /\ UnderOldBase(x.vals[i].s)

CountTargets(doc) == Cardinality({ q \in Paths(doc) : IsTarget(NodeAt(doc, q)) })

\* q names the "image" value of a target object of doc
IsTargetImage(doc, q) ==
    /\ q # << >>
    /\ LET parent == NodeAt(doc, SubSeq(q, 1, Len(q) - 1))
       IN IsTarget(parent) /\ parent.keys[q[Len(q)]] = "image"

\* b is a, but for the "image" strings of a's target objects
OnlyTargetImagesDiffer(a, b) ==
    /\ Paths(b) = Paths(a)
    /\ \A q \in Paths(a) :
          LET x == NodeAt(a, q)
              y == NodeAt(b, q)
          IN /\ y.t = x.t
             /\ x.t = "obj" => y.keys = x.keys
             /\ x.t \in { "str", "num" } => (y = x \/ IsTargetImage(a, q))

\* what the claim says of one process_json_file call
C6_PerFile(e) ==
    /\ e.changed = CountTargets(e.loaded)
    /\ e.wrote <=> e.changed >= 1
    /\ e.after = (IF e.wrote THEN e.data ELSE e.loaded)
    /\ OnlyTargetImagesDiffer(e.loaded, e.data)

\* every process_json_file call that returned did what C6 says of one file
\* (the part of C6 the code keeps)
EveryCallCountsAndWrites == \A i \in 1..Len(rw_log) : C6_PerFile(rw_log[i])

\* the run is over: main returned or an exception left it
RewriteRunOver == rw_pc \in { "done", "raised", "returned" }

\* C6: every process_json_file call returns the number of objects whose "image"
\* is a string under OLD_BASE, writes the file iff that number is at least 1 and
\* changes no other value; and when a run over an existing directory is over,
\* exactly the files with a nonzero count have been rewritten and the total line
\* carries the sum of the counts
C6_CountsAndWrites ==
    /\ \A i \in 1..Len(rw_log) : C6_PerFile(rw_log[i])
    /\ (RewriteRunOver /\ rw_dir.exists) =>
          /\ \A i \in 1..Len(rw_orig.files) :
                rw_orig.files[i] # Malformed =>
                   ((rw_dir.files[i] # rw_orig.files[i])
                       <=> CountTargets(rw_orig.files[i]) >= 1)
          /\ rw_pc = "done" =>
                rw_out[Len(rw_out)] =
                   [k |-> "total",
                    n |-> SumSeq([i \in 1..Len(rw_orig.files) |->
                                     CountTargets(rw_orig.files[i])])]

\* C1 (rewrite script): a malformed file is an error of that file only: a run
\* over an existing directory ends with the total line, after one line for every
\* file that holds JSON
C1_MalformedIsPerItem ==
    (RewriteRunOver /\ rw_dir.exists) =>
       /\ rw_out # << >> /\ rw_out[Len(rw_out)].k = "total"
       /\ \A i \in 1..Len(rw_dir.files) :
             rw_orig.files[i] # Malformed =>
                \E j \in 1..Len(rw_out) : rw_out[j].k = "file" /\ rw_out[j].idx = i

----------------------------------------------------------------------------
(* Claims about validate_image_links.py *)

\* the check of future i did not come out ok: it returned ok = False or raised
CheckNotOk(i) == futures[i].result.raised \/ ~ futures[i].result.ok

\* the futures as_completed has yielded so far
Yielded == { consumed[k] : k \in 1..Len(consumed) }

RecordsOf(u) == { k \in 1..Len(broken) : broken[k].url = u }

\* C7: whatever the order in which the checks finish and are yielded, no check
\* runs twice and no future is yielded twice, the broken list holds one record
\* for each yielded check that was not ok and none for one that was ok, and when
\* validate_urls has returned every URL of the index has been checked exactly
\* once, every future is finished and yielded
C7_EveryUrlCheckedOnce ==
    /\ \A i \in 1..Len(futures) : futures[i].runs <= 1
    /\ \A k, l \in 1..Len(consumed) : consumed[k] = consumed[l] => k = l
    /\ \A i \in 1..Len(futures) :
          Cardinality(RecordsOf(futures[i].url))
             = (IF i \in Yielded /\ CheckNotOk(i) THEN 1 ELSE 0)
    /\ Len(broken) = Cardinality({ i \in Yielded : CheckNotOk(i) })
    /\ v_pc = "done" =>
          /\ Len(futures) = Len(url_to_files)
          /\ \A i \in 1..Len(futures) :
                /\ futures[i].url = url_to_files[i].url
                /\ futures[i].state = "done"
                /\ futures[i].runs = 1
                /\ i \in Yielded
          /\ \A i, j \in 1..Len(futures) : futures[i].url = futures[j].url => i = j

\* three checks, yielded out of submission order, one ok and one not
C7_Witness ==
    /\ v_pc = "done"
    /\ Len(consumed) >= 3
    /\ consumed[1] > consumed[2]
    /\ \E i \in 1..Len(futures) : futures[i].result.ok
    /\ \E i \in 1..Len(futures) : futures[i].result.raised
    /\ \E i \in 1..Len(futures) : ~ futures[i].result.raised /\ ~ futures[i].result.ok

\* an object whose "image" value is a string beginning with "http"
HasHttpImage(x) ==
    /\ x.t = "obj"
    /\ \E i \in 1..Len(x.keys) :
          /\ x.keys[i] = "image" /\ x.vals[i].t = "str"
          /\ Len(x.vals[i].s) >= 4 /\ \A j \in 1..4 : x.vals[i].s[j] = HTTP[j]

ImageOf(x) == x.vals[CHOOSE i \in 1..Len(x.keys) : x.keys[i] = "image"].s

\* (file, node) of every such object in the files that hold JSON
HttpImageNodes(dir) ==
    { pl \in UNION { { << f, q >> : q \in Paths(dir.files[f]) } :
                     f \in { g \in 1..Len(dir.files) : dir.files[g] # Malformed } } :
         HasHttpImage(NodeAt(dir.files[pl[1]], pl[2])) }

DistinctUrls(dir) ==
    { ImageOf(NodeAt(dir.files[pl[1]], pl[2])) : pl \in HttpImageNodes(dir) }

FilesOf(dir, u) ==
    { pl[1] : pl \in { p1 \in HttpImageNodes(dir) :
                         ImageOf(NodeAt(dir.files[p1[1]], p1[2])) = u } }

IsSortedSeq(fs) == \A k \in 1..(Len(fs) - 1) : fs[k] < fs[k + 1]

\* C8: in a written report broken_count is the length of broken, total_urls is
\* the number of distinct collected URLs, and the files of every entry, also of
\* an entry made for a check that raised, are sorted, non-empty and the names of
\* the files that hold the URL
C8_ReportConsistent ==
    report # NoReport =>
       /\ report.broken_count = Len(report.broken)
       /\ report.total_urls = Cardinality(DistinctUrls(v_dir))
       /\ \A k \in 1..Len(report.broken) :
             /\ report.broken[k].files # << >>
             /\ IsSortedSeq(report.broken[k].files)
             /\ { report.broken[k].files[n] : n \in 1..Len(report.broken[k].files) }
                   = FilesOf(v_dir, report.broken[k].url)

\* a report with an entry for a check that raised, referenced by two files
C8_Witness ==
    /\ report # NoReport
    /\ report.broken_count >= 2
    /\ \E k \in 1..Len(report.broken) :
          /\ report.broken[k].error = "unknown url type"
          /\ Len(report.broken[k].files) >= 2

\* C9: check_url returns ok = True exactly when a response came with
\* 200 <= status < 400; without a response it returns ok = False, status 0 and
\* an error text; for an error response it returns ok = False and the status of
\* the response; a URL that was ok gets no record
C9_CheckUrlClassifies ==
    \A i \in 1..Len(futures) :
       (futures[i].state = "done" /\ ~ futures[i].result.raised) =>
          LET o == futures[i].probe
              r == futures[i].result
          IN /\ r.ok <=> (o.received /\ 200 <= o.status /\ o.status < 400)
             /\ ~ o.received => (~ r.ok /\ r.status = 0 /\ r.error # "")
             /\ (o.received /\ o.status >= 400) => (~ r.ok /\ r.status = o.status)
             /\ (r.ok /\ i \in Yielded) => RecordsOf(futures[i].url) = { }

----------------------------------------------------------------------------
(* Claims about index.py *)

\* convert_png_to_webp has ended: it returned, or an exception left it
ConvertOver == c_pc \in { "done", "raised" }

Skipped == [ok |-> TRUE, msg |-> "Skipping existing"]

\* C2: whatever step of a conversion fails, _convert_one does not raise: a task
\* that failed has returned (False, message), and when convert_png_to_webp has
\* ended one line has been printed for each submitted task
C2_ConvertOneNeverRaises ==
    /\ \A i \in 1..Len(c_task) : c_task[i] # "raised"
    /\ \A i \in 1..Len(c_task) :
          (c_task[i] = "done" /\ c_result[i].msg = "Failed to convert") => ~ c_result[i].ok
    /\ ConvertOver => Len(c_printed) = Len(c_task)

\* the lines printed so far are the results of the first tasks, in submission
\* order, with the counters 1, 2, ... (the part of C10 the code keeps)
PrintedInSubmissionOrder ==
    \A k \in 1..Len(c_printed) :
       /\ c_printed[k].idx = k
       /\ c_printed[k].task = k
       /\ c_printed[k].msg = c_result[k].msg
       /\ c_task[k] = "done"

\* C10: the i-th progress line carries the counter i and the result of the i-th
\* submitted task, and when convert_png_to_webp has ended the counters have run
\* from 1 to total
C10_ResultsInSubmissionOrder ==
    /\ \A k \in 1..Len(c_printed) :
          /\ c_printed[k].idx = k
          /\ c_printed[k].total = Len(c_src.files)
          /\ c_printed[k].task = k
          /\ c_printed[k].ok = c_result[k].ok
          /\ c_printed[k].msg = c_result[k].msg
    /\ ConvertOver => { c_printed[k].idx : k \in 1..Len(c_printed) } = 1..Len(c_src.files)

\* both runs were started without --overwrite, and this is the second
SecondRunNoOverwrite == c_run = 2 /\ ~ c_args.overwrite /\ ~ c_hist.overwrite

\* C3 as stated: when the second of two runs without --overwrite has ended,
\* every item was reported as skipped and every output file is as the first run
\* left it, whatever the first run did with the item
C3_SecondRunSkipsEveryItem ==
    (SecondRunNoOverwrite /\ ConvertOver) =>
       \A i \in 1..Len(c_task) :
          /\ c_result[i] = Skipped
          /\ c_dst[i] = c_hist.dst[i]

\* C3 as amended: in the second of two runs without --overwrite, a task that
\* ran while its destination existed returned the skipped result and left the
\* file as the first run left it; a task whose destination did not exist was
\* converted again and is not reported as skipped; a task that did not return
\* left its destination untouched
C3_SecondRunSkipsExisting ==
    SecondRunNoOverwrite =>
       \A i \in 1..Len(c_task) :
          IF c_task[i] = "done"
          THEN IF c_hist.dst[i].state # "absent"
               THEN c_result[i] = Skipped /\ c_dst[i] = c_hist.dst[i]
               ELSE c_result[i].msg \in { "Converted", "Failed to convert" }
          ELSE c_dst[i] = c_hist.dst[i]

\* a second run that skipped a file the first run had converted and failed
\* again on a source the first run had failed on without leaving a file
C3_Witness ==
    /\ SecondRunNoOverwrite /\ c_pc = "done"
    /\ \E i \in 1..Len(c_task) :
          /\ c_hist.result[i].msg = "Converted" /\ c_hist.dst[i].by = 1
          /\ c_result[i] = Skipped /\ c_dst[i] = c_hist.dst[i]
    /\ \E j \in 1..Len(c_task) :
          /\ c_hist.result[j].msg = "Failed to convert" /\ c_hist.dst[j] = Absent
          /\ c_result[j].msg = "Failed to convert"

====
